---- MODULE Spec2Model ----
(***************************************************************************)
(* WasmBlake2s: the WASM-backed Blake2s hashing engine of the merkle       *)
(* library (digest, merge, buildMerkleNodes, mergeVectorRows,              *)
(* digestValues) over one linear WASM memory.                              *)
(*                                                                         *)
(* The memory is a map from byte address to byte.  The hash itself is an   *)
(* opaque function: a digest is the term <<"H", c>>, c being the input in  *)
(* canonical form, and byte k of a digest t is <<"d", t, k>>.  A data byte *)
(* v is <<"r", v, 0>>; a byte of a freshly allocated block that was never  *)
(* written is <<"u", v, 0>>.                                               *)
(***************************************************************************)
EXTENDS Integers, Sequences, FiniteSets, TLC

VARIABLES mem, blocks, bufId, cap, results, held, last, allOk

vars == <<mem, blocks, bufId, cap, results, held, last, allOk>>

\* ------------------------------------------------------------ constants
DIGEST_SIZE == 32

\* value.byteLength < 4096: the inputs digest() hashes in the scratch region
SCRATCH_LIMIT == 4096

\* elementSize > 64, 64 % elementSize
MERGE_WIDTH == 64

\* wasm.getInputsRef(), wasm.getOutputRef(): the reserved regions
iRef == 0

oRef == 4096

oEnd == oRef + DIGEST_SIZE

\* first address the allocator hands out, and its granule
HeapBase == 4128

ALIGN == 16

\* ------------------------------------------------------------ bounds
\* bytes of heap behind HeapBase that memory.grow can reach
HeapLimit == 4144

\* bytes by which the memory grows
GrowStep == 2048

\* bytes of heap inside the memory as instantiated
InitHeap == 64

\* deepest tree buildMerkleNodes is asked for
MaxDepth == 2

\* result vectors the caller holds at once
MaxResults == 1

\* most leaves a host vector carries
MaxLeaves == 4

\* ------------------------------------------------------------ bytes
Raw(v) == <<"r", v, 0>>

Uninit(v) == <<"u", v, 0>>

\* the content a byte has when it is read
Val(b) == IF b[1] = "u" THEN Raw(b[2]) ELSE b

Bytes(n, v) == [i \in 1..n |-> Raw(v)]

NULL_BUFFER == Bytes(DIGEST_SIZE, 0)

\* the bytes of digest term t
DigestBytes(t) == [k \in 1..DIGEST_SIZE |-> <<"d", t, k - 1>>]

\* The hash input chunk by chunk: DIGEST_SIZE consecutive bytes that are the
\* whole of one digest are that digest once, followed by fillers.
Chunks(bs) ==
    [i \in 1..Len(bs) |->
        LET b == Val(bs[i]) IN
        IF b[1] # "d" THEN b
        ELSE LET s == i - b[3] IN
             IF /\ s >= 1
                /\ s + DIGEST_SIZE - 1 <= Len(bs)
                /\ \A j \in 0..(DIGEST_SIZE - 1) : bs[s + j] = <<"d", b[2], j>>
             THEN (IF b[3] = 0 THEN <<"D", b[2], 0>> ELSE <<"-", 0, 0>>)
             ELSE b]

\* The chunks in canonical form: the length, and every place where a run of
\* equal chunks starts with the chunk that starts there.
Canon(bs) ==
    LET c == Chunks(bs) IN
    <<Len(bs), {<<i, c[i]>> : i \in {j \in 1..Len(bs) : j = 1 \/ c[j] # c[j - 1]}}>>

\* Blake2s-256 of a byte sequence, as an opaque term
H(bs) == <<"H", Canon(bs)>>

Concat(a, b) == [i \in 1..(Len(a) + Len(b)) |-> IF i <= Len(a) THEN a[i] ELSE b[i - Len(a)]]

Slice(bs, from, len) == [i \in 1..len |-> bs[from + i]]

\* ------------------------------------------------------------ memory
RdByte(m, a) == IF a \in DOMAIN m THEN m[a] ELSE Raw(0)

Load(m, ptr, len) == [i \in 1..len |-> RdByte(m, ptr + i - 1)]

Store(m, ptr, bs) ==
    LET rng == ptr..(ptr + Len(bs) - 1) IN
    [a \in (DOMAIN m) \cup rng |-> IF a \in rng THEN bs[a - ptr + 1] ELSE m[a]]

Footprint(size) == IF size = 0 THEN ALIGN ELSE ((size + ALIGN - 1) \div ALIGN) * ALIGN

Extent(b) == b.addr..(b.addr + Footprint(b.size) - 1)

Min(S) == CHOOSE x \in S : \A y \in S : x <= y

\* The engine while one call runs: the memory, the allocator's blocks, the
\* identity of memory.buffer, plus what the call did (err: the exception it
\* threw; ret: the value the last primitive returned).
Machine(f) ==
    [mem |-> mem, blocks |-> blocks, bufId |-> bufId, cap |-> cap, fill |-> f,
     err |-> "", ret |-> 0, stale |-> FALSE, uninit |-> {}, dbl |-> FALSE,
     wlog |-> <<>>, copied |-> FALSE, tree |-> -1]

Throw(W, e) == [W EXCEPT !.err = e, !.ret = <<>>]

Return(W, v) == [W EXCEPT !.ret = v]

\* wasm.newArray(size): the lowest free aligned range; memory grows (and
\* memory.buffer is replaced) when the range ends past the current size.
newArray(W, size) ==
    LET fp   == Footprint(size)
        fits == {a \in {HeapBase + ALIGN * k : k \in 0..(HeapLimit \div ALIGN)} :
                    /\ a + fp <= HeapBase + HeapLimit
                    /\ \A b \in W.blocks : \/ a + fp <= b.addr
                                             \/ b.addr + Footprint(b.size) <= a}
    IN  IF fits = {} THEN Throw(W, "AllocationFailure")
        ELSE LET a    == Min(fits)
                 grow == a + fp > W.cap
             IN [W EXCEPT !.blocks = @ \cup {[addr |-> a, size |-> size]},
                          !.mem    = Store(@, a, [i \in 1..size |-> Uninit(W.fill)]),
                          !.bufId  = IF grow THEN @ + 1 ELSE @,
                          !.cap    = IF grow
                                     THEN HeapBase + ((a + fp - HeapBase + GrowStep - 1) \div GrowStep) * GrowStep
                                     ELSE @,
                          !.ret    = a]

\* wasm.__release(ref): the block's bytes are no longer the program's
release(W, ref) ==
    LET hit == {b \in W.blocks : b.addr = ref} IN
    IF hit = {} THEN [W EXCEPT !.dbl = TRUE]
    ELSE LET gone == UNION {Extent(b) : b \in hit} IN
         [W EXCEPT !.blocks = @ \ hit,
                   !.mem    = [a \in (DOMAIN @) \ gone |-> @[a]]]

\* wasm.hash(ptr, len, out)
hash(W, ptr, len, out) ==
    LET bs == Load(W.mem, ptr, len) IN
    [W EXCEPT !.mem    = Store(@, out, DigestBytes(H(bs))),
              !.uninit = @ \cup {ptr + i - 1 : i \in {j \in 1..len : bs[j][1] = "u"}},
              !.wlog   = IF out >= HeapBase THEN Append(@, out) ELSE @]

\* ------------------------------------------------------------ buffers
\* A Buffer / typed-array view: buffer 0 is host memory (it carries its own
\* bytes), any other buffer is the memory.buffer with that identity.
HostBuffer(bs) == [buffer |-> 0, byteOffset |-> 0, byteLength |-> Len(bs), bytes |-> bs]

\* new Uint8Array(wasm.memory.buffer).subarray(from, to)
View(view, from, to) == [buffer |-> view, byteOffset |-> from, byteLength |-> to - from, bytes |-> <<>>]

Detached(W, buf) == buf.buffer # 0 /\ buf.buffer # W.bufId

\* the bytes a buffer shows now; a view of a replaced memory.buffer is empty
Contents(m, id, buf) ==
    IF buf.buffer = 0 THEN buf.bytes
    ELSE IF buf.buffer = id THEN Load(m, buf.byteOffset, buf.byteLength)
    ELSE <<>>

\* memU8.set(bytes, ptr) through the view taken when memory.buffer was `view`
viewSet(W, view, bs, ptr) ==
    IF view # W.bufId THEN [W EXCEPT !.stale = TRUE]
    ELSE [W EXCEPT !.mem = Store(@, ptr, bs)]

\* Buffer.from(view): a copy of the bytes the view shows
BufferFrom(W, view) ==
    [W EXCEPT !.ret   = HostBuffer(Contents(W.mem, W.bufId, view)),
              !.stale = @ \/ Detached(W, view)]

\* ------------------------------------------------------------ vectors
\* A Vector: host-resident (base = -1, carrying its bytes) or a WasmVector
\* at address base of the engine's memory.
HostVector(n, es, bs) == [base |-> -1, length |-> n, elementSize |-> es, bytes |-> bs]

WasmVector(ref, n, es) == [base |-> ref, length |-> n, elementSize |-> es, bytes |-> <<>>]

\* vector.toBuffer()
toBuffer(W, v) ==
    IF v.base = -1 THEN HostBuffer(v.bytes)
    ELSE View(W.bufId, v.base, v.base + v.length * v.elementSize)

\* ------------------------------------------------------------ batch primitives
RECURSIVE hashValues1(_, _, _, _, _)
\* wasm.hashValues1: one digest per vElementSize bytes, upward from vRef;
\* returns the address after the last digest written
hashValues1(W, vRef, resRef, vElementSize, vElementCount) ==
    IF vElementCount <= 0 THEN Return(W, resRef)
    ELSE hashValues1(hash(W, vRef, vElementSize, resRef), vRef + vElementSize,
                     resRef + DIGEST_SIZE, vElementSize, vElementCount - 1)

RECURSIVE hashValues2(_, _, _, _, _)
\* wasm.hashValues2: vElementCount digests, one per vElementSize bytes,
\* downward from vRef, written downward from resRef
hashValues2(W, vRef, resRef, vElementSize, vElementCount) ==
    IF vElementCount <= 0 THEN W
    ELSE hashValues2(hash(W, vRef, vElementSize, resRef), vRef - vElementSize,
                     resRef - DIGEST_SIZE, vElementSize, vElementCount - 1)

\* a reference (below 2^31) as the 8 little-endian bytes of a BigUint64Array
\* element
U64Bytes(n) ==
    [k \in 1..8 |-> Raw(IF k <= 3 THEN (n \div (256 ^ (k - 1))) % 256
                        ELSE IF k = 4 THEN n \div 16777216
                        ELSE 0)]

RdU64(m, a) ==
    LET b(k) == Val(RdByte(m, a + k))[2] IN
    b(0) + 256 * b(1) + 65536 * b(2) + 16777216 * b(3)

\* the bytes of element `row` of every vector, in the order of refs
RowBytes(m, refs, row, elementSize) ==
    [i \in 1..(Len(refs) * elementSize) |->
        RdByte(m, refs[((i - 1) \div elementSize) + 1] + row * elementSize
                  + ((i - 1) % elementSize))]

RECURSIVE mergeRows(_, _, _, _, _, _)
mergeRows(W, refs, resRef, row, elementCount, elementSize) ==
    IF row >= elementCount THEN W
    ELSE mergeRows([W EXCEPT !.mem = Store(@, resRef + row * DIGEST_SIZE,
                                           DigestBytes(H(RowBytes(W.mem, refs, row, elementSize))))],
                   refs, resRef, row + 1, elementCount, elementSize)

\* wasm.mergeArrayElements: digest i is the hash of element i of every
\* vector, in the order of the references at vRefs
mergeArrayElements(W, vRefs, resRef, vCount, elementCount, elementSize) ==
    mergeRows(W, [j \in 1..vCount |-> RdU64(W.mem, vRefs + 8 * (j - 1))],
              resRef, 0, elementCount, elementSize)

RECURSIVE releaseAll(_, _)
releaseAll(W, refs) ==
    IF refs = {} THEN W
    ELSE releaseAll(release(W, Min(refs)), refs \ {Min(refs)})

\* ------------------------------------------------------------ digest, merge
\* copyOut handing out the view of the output region itself
copyOutView(W, memU8) == Return(W, View(memU8, oRef, oEnd))

\* return Buffer.from(memU8.subarray(this.oRef, this.oEnd))
copyOut(W, memU8) == BufferFrom(W, View(memU8, oRef, oEnd))

\* digestLarge keeping the view it took before newArray
digestLargeKeepsView(W1, memU8, value) ==
    IF W1.err # "" THEN W1
    ELSE copyOut(release(hash(viewSet(W1, memU8, value, W1.ret), W1.ret, Len(value), oRef),
                         W1.ret),
                 memU8)

\* digest() of 4096 bytes or more, from the block W1 has just allocated
digestLarge(W1, memU8, value) ==
    IF W1.err # "" THEN W1
    ELSE LET vRef   == W1.ret
             memU8b == IF memU8 # W1.bufId THEN W1.bufId ELSE memU8
         IN  copyOut(release(hash(viewSet(W1, memU8b, value, vRef), vRef, Len(value), oRef),
                             vRef),
                     memU8b)

digest(W, value) ==
    IF Len(value) < SCRATCH_LIMIT
    THEN copyOut(hash(viewSet(W, W.bufId, value, iRef), iRef, Len(value), oRef), W.bufId)
    ELSE digestLarge(newArray(W, Len(value)), W.bufId, value)

\* merge placing b at a fixed offset, one digest behind the start of a
mergeFixedOffset(W, a, b) ==
    copyOut(hash(viewSet(viewSet(W, W.bufId, a, iRef), W.bufId, b, iRef + DIGEST_SIZE),
                 iRef, Len(a) + Len(b), oRef),
            W.bufId)

merge(W, a, b) ==
    copyOut(hash(viewSet(viewSet(W, W.bufId, a, iRef), W.bufId, b, iRef + Len(a)),
                 iRef, Len(a) + Len(b), oRef),
            W.bufId)

\* ------------------------------------------------------------ buildMerkleNodes
\* The method in the order of its source, one operator per stage; each stage
\* takes the engine as the stage before left it.
EvenLeafCount(leaves) ==
    IF leaves.length % 2 = 1 THEN leaves.length - 1 ELSE leaves.length

\* copy the buffer out of WASM memory, free the memory, and return the buffer
bmnReturn(W, nRef, bufferLength) ==
    Return(release(W, nRef), Load(W.mem, nRef, bufferLength))

\* bmnUpper reading the children at the offset of their parent (sIndex
\* without the << 1)
bmnUpperSameOffset(W, nodeCount, nRef) ==
    LET parentCount == nodeCount \div 2
        tIndex      == (parentCount - 1) * DIGEST_SIZE
    IN  bmnReturn(hashValues2(W, nRef + tIndex, nRef + tIndex, DIGEST_SIZE * 2, parentCount),
                  nRef, nodeCount * DIGEST_SIZE)

\* bmnUpper hashing one child per parent (DIGEST_SIZE without the << 1)
bmnUpperOneChild(W, nodeCount, nRef) ==
    LET parentCount == nodeCount \div 2
        tIndex      == (parentCount - 1) * DIGEST_SIZE
        sIndex      == tIndex * 2
    IN  bmnReturn(hashValues2(W, nRef + sIndex, nRef + tIndex, DIGEST_SIZE, parentCount),
                  nRef, nodeCount * DIGEST_SIZE)

\* calculate all other tree nodes
bmnUpper(W, nodeCount, nRef) ==
    LET parentCount == nodeCount \div 2
        tIndex      == (parentCount - 1) * DIGEST_SIZE
        sIndex      == tIndex * 2
    IN  bmnReturn(hashValues2(W, nRef + sIndex, nRef + tIndex, DIGEST_SIZE * 2, parentCount),
                  nRef, nodeCount * DIGEST_SIZE)

RECURSIVE fillNull(_, _, _, _, _)
\* while (resRef < resEnd) { memU8.set(nullParent, resRef); resRef += DIGEST_SIZE }
fillNull(W, memU8, nullParent, resRef, resEnd) ==
    IF resRef >= resEnd THEN W
    ELSE fillNull(viewSet(W, memU8, nullParent, resRef), memU8, nullParent,
                  resRef + DIGEST_SIZE, resEnd)

\* Wn: the engine after this.merge(NULL_BUFFER, NULL_BUFFER)
bmnNullParents(Wn, resRef, resEnd) == fillNull(Wn, Wn.bufId, Wn.ret.bytes, resRef, resEnd)

\* if number of leaves was not a power of 2, assume all other leaves are NULL
bmnPad(W, nodeCount, leaves, nRef, resRef) ==
    bmnUpper(IF leaves.length < nodeCount
             THEN bmnNullParents(merge(W, NULL_BUFFER, NULL_BUFFER), resRef,
                                 nRef + nodeCount * DIGEST_SIZE)
             ELSE W,
             nodeCount, nRef)

\* wasm.hash(iRef, lastLeaf.length + DIGEST_SIZE, resRef) of lastLeaf, NULL_BUFFER
bmnLastLeaf(W, lastLeaf, resRef) ==
    hash(viewSet(viewSet(W, W.bufId, lastLeaf, iRef), W.bufId, NULL_BUFFER, iRef + Len(lastLeaf)),
         iRef, Len(lastLeaf) + DIGEST_SIZE, resRef)

\* bmnOdd without resRef += DIGEST_SIZE after the last leaf
bmnOddStays(W, nodeCount, leaves, nRef, lBuffer, resRef) ==
    LET odd == EvenLeafCount(leaves) # leaves.length IN
    bmnPad(IF odd
           THEN bmnLastLeaf(W, Slice(Contents(W.mem, W.bufId, lBuffer),
                                     lBuffer.byteLength - leaves.elementSize, leaves.elementSize),
                            resRef)
           ELSE W,
           nodeCount, leaves, nRef, resRef)

\* if the number of leaves was odd, process the last leaf
bmnOdd(W, nodeCount, leaves, nRef, lBuffer, resRef) ==
    LET odd == EvenLeafCount(leaves) # leaves.length IN
    bmnPad(IF odd
           THEN bmnLastLeaf(W, Slice(Contents(W.mem, W.bufId, lBuffer),
                                     lBuffer.byteLength - leaves.elementSize, leaves.elementSize),
                            resRef)
           ELSE W,
           nodeCount, leaves, nRef, IF odd THEN resRef + DIGEST_SIZE ELSE resRef)

\* W4: the engine after hashValues1, whose result is the next free slot;
\* if the leaves were copied into local memory, free that memory
bmnRelease(W4, nodeCount, leaves, nRef, lBuffer, lRef, releaseLeaves) ==
    bmnOdd(IF releaseLeaves THEN release(W4, lRef) ELSE W4, nodeCount, leaves, nRef, lBuffer,
           W4.ret)

\* build first row of internal nodes (parents of leaves)
bmnPairs(W, nodeCount, leaves, nRef, lBuffer, lRef, releaseLeaves) ==
    bmnRelease(hashValues1(W, lRef, nRef + (nodeCount \div 2) * DIGEST_SIZE,
                           leaves.elementSize * 2, EvenLeafCount(leaves) \div 2),
               nodeCount, leaves, nRef, lBuffer, lRef, releaseLeaves)

\* W2: the engine after newArray(lBuffer.byteLength) when the leaves are not
\* in this memory (lRef 0: the leaves are, at lBuffer.byteOffset)
bmnCopyIn(W2, nodeCount, leaves, nRef, lBuffer, copy) ==
    IF W2.err # "" THEN W2
    ELSE bmnPairs(IF copy
                  THEN viewSet([W2 EXCEPT !.copied = @ \/ lBuffer.buffer # 0], W2.bufId,
                               Contents(W2.mem, W2.bufId, lBuffer), W2.ret)
                  ELSE W2,
                  nodeCount, leaves, nRef, lBuffer,
                  IF copy THEN W2.ret ELSE lBuffer.byteOffset, copy)

\* let lBuffer = leaves.toBuffer(); if (lBuffer.buffer !== wasm.memory.buffer)
bmnLeaves(W1, nodeCount, leaves, nRef, lBuffer) ==
    bmnCopyIn(IF lBuffer.buffer # W1.bufId THEN newArray(W1, lBuffer.byteLength) ELSE W1,
              nodeCount, leaves, nRef, lBuffer, lBuffer.buffer # W1.bufId)

\* W1: the engine after newArray(bufferLength), whose result is nRef
bmnTree(W1, nodeCount, leaves) ==
    IF W1.err # "" THEN W1
    ELSE bmnLeaves([W1 EXCEPT !.tree = W1.ret], nodeCount, leaves, W1.ret, toBuffer(W1, leaves))

buildMerkleNodes(W, depth, leaves) ==
    bmnTree(newArray(W, (2 ^ depth) * DIGEST_SIZE), 2 ^ depth, leaves)

\* ------------------------------------------------------------ mergeVectorRows
\* W1: the engine after the newArray of vector i, or as it was when the
\* vector is already in WASM memory; returns <<vRef, memU8>>
mvrRef(W1, memU8, buffer, resident, at) ==
    IF W1.err # "" THEN W1
    ELSE LET vRef   == IF resident THEN buffer.byteOffset ELSE W1.ret
             memU8b == IF ~resident /\ memU8 # W1.bufId THEN W1.bufId ELSE memU8
             W2     == IF resident THEN W1
                       ELSE viewSet([W1 EXCEPT !.copied = @ \/ buffer.buffer # 0], memU8b,
                                    Contents(W1.mem, W1.bufId, buffer), vRef)
         IN  Return(viewSet(W2, W1.bufId, U64Bytes(vRef), at), <<vRef, memU8b>>)

RECURSIVE buildRefs(_, _, _, _, _, _)
\* the loop over the vectors, from vector i on (the first is 1); returns
\* refsToRelease
buildRefs(W, vectors, vIdx, i, memU8, refsToRelease) ==
    IF W.err # "" THEN W
    ELSE IF i > Len(vectors) THEN Return(W, refsToRelease)
    ELSE LET buffer   == toBuffer(W, vectors[i])
             resident == buffer.buffer = W.bufId
             W3       == mvrRef(IF resident THEN W ELSE newArray(W, buffer.byteLength),
                                memU8, buffer, resident, (vIdx + i - 1) * 8)
         IN  IF W3.err # "" THEN W3
             ELSE buildRefs(W3, vectors, vIdx, i + 1, W3.ret[2],
                            IF resident THEN refsToRelease ELSE refsToRelease \cup {W3.ret[1]})

\* release all memory that was used up during the operation; build and
\* return a vector with hashes
mvrFinish(W4, vRefs, refsToRelease, resRef, elementCount) ==
    Return(releaseAll(release(W4, vRefs), refsToRelease),
           WasmVector(resRef, elementCount, DIGEST_SIZE))

\* W3: the engine after newArray(elementCount * DIGEST_SIZE)
mvrMerge(W3, vectors, vRefs, refsToRelease) ==
    IF W3.err # "" THEN W3
    ELSE mvrFinish(mergeArrayElements(W3, vRefs, W3.ret, Len(vectors), vectors[1].length,
                                      vectors[1].elementSize),
                   vRefs, refsToRelease, W3.ret, vectors[1].length)

\* W2: the engine after the loop over the vectors
mvrResult(W2, vectors, vRefs) ==
    IF W2.err # "" THEN W2
    ELSE mvrMerge(newArray(W2, vectors[1].length * DIGEST_SIZE), vectors, vRefs, W2.ret)

\* W1: the engine after newArray(vectors.length * 8), whose result is vRefs
mvrRefs(W1, vectors) ==
    IF W1.err # "" THEN W1
    ELSE mvrResult(buildRefs(W1, vectors, W1.ret \div 8, 1, W1.bufId, {}), vectors, W1.ret)

\* mergeVectorRows checking the element size after it allocated vRefs
mergeVectorRowsChecksLate(W, vectors) ==
    LET elementSize == vectors[1].elementSize
        W1          == newArray(W, Len(vectors) * 8)
    IN  IF elementSize > MERGE_WIDTH THEN Throw(W1, "InvalidElementSize")
        ELSE IF MERGE_WIDTH % elementSize # 0 THEN Throw(W1, "InvalidElementSize")
        ELSE mvrRefs(W1, vectors)

mergeVectorRows(W, vectors) ==
    LET elementSize == vectors[1].elementSize IN
    IF elementSize > MERGE_WIDTH THEN Throw(W, "InvalidElementSize")
    ELSE IF MERGE_WIDTH % elementSize # 0 THEN Throw(W, "InvalidElementSize")
    ELSE mvrRefs(newArray(W, Len(vectors) * 8), vectors)

\* ------------------------------------------------------------ digestValues
\* dvFinish releasing vRef whether or not the values were copied
dvFinishReleases(W4, vRef, resRef, elementCount, releaseValues) ==
    Return(release(W4, vRef), WasmVector(resRef, elementCount, DIGEST_SIZE))

\* if the values were copied into WASM memory during the operation, free the
\* memory
dvFinish(W4, vRef, resRef, elementCount, releaseValues) ==
    Return(IF releaseValues THEN release(W4, vRef) ELSE W4,
           WasmVector(resRef, elementCount, DIGEST_SIZE))

\* W3: the engine after newArray(elementCount * DIGEST_SIZE)
dvHash(W3, vRef, valueSize, elementCount, releaseValues) ==
    IF W3.err # "" THEN W3
    ELSE dvFinish(hashValues1(W3, vRef, W3.ret, valueSize, elementCount), vRef, W3.ret,
                  elementCount, releaseValues)

\* W1: the engine after newArray(values.byteLength) when the values are not
\* in this memory
dvCopyIn(W1, values, valueSize, elementCount, copy) ==
    IF W1.err # "" THEN W1
    ELSE dvHash(newArray(IF copy
                         THEN viewSet([W1 EXCEPT !.copied = @ \/ values.buffer # 0], W1.bufId,
                                      Contents(W1.mem, W1.bufId, values), W1.ret)
                         ELSE W1,
                         elementCount * DIGEST_SIZE),
                IF copy THEN W1.ret ELSE values.byteOffset, valueSize, elementCount, copy)

digestValues(W, values, valueSize) ==
    IF valueSize = 0 \/ values.byteLength % valueSize # 0
    THEN Throw(W, "MisalignedBuffer")
    ELSE dvCopyIn(IF W.bufId = values.buffer THEN W ELSE newArray(W, values.byteLength),
                  values, valueSize, values.byteLength \div valueSize,
                  W.bufId # values.buffer)

\* ------------------------------------------------------------ the callers' inputs
\* a host vector whose element i is elementSize bytes of value i + 1
HostLeaves(n, es) == HostVector(n, es, [k \in 1..(n * es) |-> Raw(((k - 1) \div es) + 1)])

\* the bytes of a vector as the caller passes it
VectorBytes(v) ==
    IF v.base = -1 THEN v.bytes ELSE Load(mem, v.base, v.length * v.elementSize)

\* a result vector as the buffer the caller passes to digestValues
ResultBuffer(v) == View(bufId, v.base, v.base + v.length * v.elementSize)

Large == Bytes(SCRATCH_LIMIT, 0)

DigestInputs == {Bytes(1, 7), Large}

MergeInputs == {<<Bytes(1, 1), Bytes(2, 2)>>, <<Bytes(DIGEST_SIZE, 3), NULL_BUFFER>>}

\* a host vector of one leaf, or a result vector, for a tree of depth 1
LeafInputs == {<<1, HostLeaves(1, DIGEST_SIZE)>>} \cup {<<1, v>> : v \in {r \in results : r.length <= 2}}

VectorInputs ==
    {<<HostLeaves(1, 32), HostLeaves(1, 32)>>,
     <<HostLeaves(1, 65)>>,
     <<HostLeaves(1, 48), HostLeaves(1, 32)>>,
     <<HostLeaves(1, 32), HostLeaves(1, 48)>>}
        \cup {<<v, HostLeaves(v.length, DIGEST_SIZE)>> : v \in results}

ValueInputs ==
    {<<HostBuffer(Bytes(3, 3)), 2>>,
     <<HostBuffer(Large), SCRATCH_LIMIT>>}
        \cup {<<ResultBuffer(v), DIGEST_SIZE>> : v \in results}

\* every tree of depth up to MaxDepth over up to MaxLeaves host leaves or
\* over a result vector
TreeLeafInputs ==
    UNION {{<<d, HostLeaves(n, DIGEST_SIZE)>> : n \in {k \in 0..(2 ^ d) : k <= MaxLeaves}}
             \cup {<<d, v>> : v \in {r \in results : r.length <= 2 ^ d}} : d \in 0..MaxDepth}

ScratchLeafInputs == {<<1, HostLeaves(1, DIGEST_SIZE)>>}

ScratchVectorInputs == {<<HostLeaves(1, 32), HostLeaves(1, 32)>>}

TreeMergeInputs == {<<Bytes(1, 1), Bytes(2, 2)>>}

\* three values of DIGEST_SIZE bytes, which digestValues turns into three
\* leaves in WASM memory
TreeValueInputs == {<<HostBuffer(HostLeaves(3, DIGEST_SIZE).bytes), DIGEST_SIZE>>}

\* the byte a fresh block may show before it is written
FillBytes == {0, 255}

\* ------------------------------------------------------------ the calls
NoCall ==
    [op |-> "none", err |-> "", stale |-> FALSE, uninit |-> {}, dbl |-> FALSE,
     wlog |-> <<>>, copied |-> FALSE, tree |-> -1, grew |-> FALSE, out |-> <<>>,
     arg |-> <<>>]

\* The caller keeps a result vector while it holds fewer than MaxResults of
\* them, and releases at once one it has no room for.
Keeps(W, vector) == vector /\ W.err = "" /\ Cardinality(results) < MaxResults

Drops(W, vector) == vector /\ W.err = "" /\ Cardinality(results) >= MaxResults

\* One call of the engine: W is the engine as the call left it, W.ret what
\* it returned and W.err what it threw; arg is what it was called with.  The
\* caller keeps the digest or the result vector it got.
Call(op, W, arg, digests, vector) ==
    /\ mem'     = IF Drops(W, vector) THEN release(W, W.ret.base).mem ELSE W.mem
    /\ blocks'  = IF Drops(W, vector) THEN release(W, W.ret.base).blocks ELSE W.blocks
    /\ bufId'   = W.bufId
    /\ cap'     = W.cap
    /\ allOk'   = (allOk /\ W.err = "")
    /\ last'    = [op |-> op, err |-> W.err, stale |-> W.stale, uninit |-> W.uninit,
                   dbl |-> W.dbl, wlog |-> W.wlog, copied |-> W.copied, tree |-> W.tree,
                   grew |-> W.bufId # bufId, out |-> W.ret, arg |-> arg]
    /\ held'    = IF digests /\ W.err = ""
                  THEN <<[buf |-> W.ret, shown |-> Contents(W.mem, W.bufId, W.ret)]>>
                  ELSE held
    /\ results' = IF Keeps(W, vector) THEN results \cup {W.ret} ELSE results

Init ==
    /\ mem = [a \in {} |-> Raw(0)]
    /\ blocks = {}
    /\ bufId = 1
    /\ cap = HeapBase + InitHeap
    /\ results = {}
    /\ held = <<>>
    /\ last = NoCall
    /\ allOk = TRUE

\* digest, mergeVectorRows and digestValues write every byte of a block
\* they allocate before any of it is read (their uninit stays empty), so
\* what a fresh block shows is immaterial to them; buildMerkleNodes is
\* called with each content a fresh block may show.
Digest(inputs) ==
    \E value \in inputs :
        Call("digest", digest(Machine(0), value), [byteLength |-> Len(value)], TRUE, FALSE)

Merge(inputs) ==
    \E ab \in inputs :
        Call("merge", merge(Machine(0), ab[1], ab[2]), ab, TRUE, FALSE)

BuildMerkleNodes(inputs) ==
    \E dl \in inputs, f \in FillBytes :
        Call("buildMerkleNodes", buildMerkleNodes(Machine(f), dl[1], dl[2]),
             [depth |-> dl[1], n |-> dl[2].length, es |-> dl[2].elementSize,
              bytes |-> VectorBytes(dl[2]), resident |-> dl[2].base # -1],
             FALSE, FALSE)

MergeVectorRows(inputs) ==
    \E vectors \in inputs :
        Call("mergeVectorRows", mergeVectorRows(Machine(0), vectors),
             [sizes |-> [i \in 1..Len(vectors) |-> vectors[i].elementSize],
              resident |-> {i \in 1..Len(vectors) : vectors[i].base # -1}],
             FALSE, TRUE)

DigestValues(inputs) ==
    \E vs \in inputs :
        Call("digestValues", digestValues(Machine(0), vs[1], vs[2]),
             [byteLength |-> vs[1].byteLength, valueSize |-> vs[2],
              resident |-> vs[1].buffer # 0],
             FALSE, TRUE)

\* the engine's allocations: every operation that allocates, over host
\* inputs and over the result vectors the caller holds
Next ==
    \/ Digest({Large})
    \/ BuildMerkleNodes(LeafInputs)
    \/ MergeVectorRows(VectorInputs)
    \/ DigestValues(ValueInputs)

Spec == Init /\ [][Next]_vars

\* digest and merge between the other operations, which reuse the scratch
\* and output regions
NextDigest ==
    \/ Digest(DigestInputs)
    \/ Merge(MergeInputs)
    \/ BuildMerkleNodes(ScratchLeafInputs)
    \/ MergeVectorRows(ScratchVectorInputs)
    \/ DigestValues(TreeValueInputs)

SpecDigest == Init /\ [][NextDigest]_vars

\* trees of every shape, over leaves of the host and leaves digestValues
\* left in WASM memory, with merge calls between them
NextTree ==
    \/ BuildMerkleNodes(TreeLeafInputs)
    \/ DigestValues(TreeValueInputs)
    \/ Merge(TreeMergeInputs)

SpecTree == Init /\ [][NextTree]_vars

\* ------------------------------------------------------------ the tree a call returns
Built == last.op = "buildMerkleNodes" /\ last.err = ""

\* node k of the returned buffer: the DIGEST_SIZE bytes at offset k * DIGEST_SIZE
Node(k) == Slice(last.out, k * DIGEST_SIZE, DIGEST_SIZE)

\* the digest merge(a, b) has to return
MergeRef(a, b) == DigestBytes(H(Concat(a, b)))

\* leaf i (from 0) of the vector the call was given
Leaf(arg, i) == Slice(arg.bytes, i * arg.es, arg.es)

\* the slot of the lowest row and the number of its slots
RowStart(depth) == (2 ^ depth) \div 2

RowLen(depth) == (2 ^ depth) - RowStart(depth)

\* slot i (from 0) of the lowest row over the leaves, the missing ones
\* being NULL_BUFFER
RowSlot(arg, i) ==
    IF 2 * i + 1 < arg.n THEN MergeRef(Leaf(arg, 2 * i), Leaf(arg, 2 * i + 1))
    ELSE IF 2 * i < arg.n THEN MergeRef(Leaf(arg, 2 * i), NULL_BUFFER)
    ELSE MergeRef(NULL_BUFFER, NULL_BUFFER)

RECURSIVE RootOver(_)
\* the root over a row of 2^k nodes
RootOver(row) ==
    IF Len(row) = 1 THEN row[1]
    ELSE RootOver([i \in 1..(Len(row) \div 2) |-> MergeRef(row[2 * i - 1], row[2 * i])])

Root(arg) == RootOver([i \in 1..RowLen(arg.depth) |-> RowSlot(arg, i - 1)])

\* ------------------------------------------------------------ properties
\* C1 as the specification states it: for depth >= 1 the root of the tree
\* is the element at offset 0 of the buffer buildMerkleNodes returns.
C1_RootAtOffset0 == (Built /\ last.arg.depth >= 1) => Node(0) = Root(last.arg)

\* C1: for depth >= 1 the root of the tree is the element at offset
\* DIGEST_SIZE (node 1) of the buffer buildMerkleNodes returns; it is the
\* merge of the two nodes of the row below it, nodes 2 and 3 when the
\* buffer holds that row and the leaves' pairs otherwise.
C1_RootAtNode1 ==
    (Built /\ last.arg.depth >= 1) =>
        /\ Node(1) = Root(last.arg)
        /\ last.arg.depth >= 2 => Node(1) = MergeRef(Node(2), Node(3))

C1_Witness ==
    /\ Built
    /\ last.arg.depth = 2
    /\ last.arg.n = 4
    /\ Node(1) = MergeRef(MergeRef(Leaf(last.arg, 0), Leaf(last.arg, 1)),
                          MergeRef(Leaf(last.arg, 2), Leaf(last.arg, 3)))
    /\ Node(0) # Node(1)

\* C2: the lowest row of the buffer buildMerkleNodes returns holds, slot by
\* slot, merge(leaf 2i, leaf 2i+1) for every pair of leaves, then
\* merge(last leaf, NULL_BUFFER) when the number of leaves is odd, then
\* merge(NULL_BUFFER, NULL_BUFFER) in every slot left, for every depth >= 0.
C2_LowestRow ==
    Built =>
        \A i \in 0..(RowLen(last.arg.depth) - 1) :
            Node(RowStart(last.arg.depth) + i) = RowSlot(last.arg, i)

C2_Witness ==
    /\ Built
    /\ last.arg.depth = 2
    /\ last.arg.n = 3
    /\ Node(2) = MergeRef(Leaf(last.arg, 0), Leaf(last.arg, 1))
    /\ Node(3) = MergeRef(Leaf(last.arg, 2), NULL_BUFFER)
    /\ Node(3) # MergeRef(NULL_BUFFER, NULL_BUFFER)

BadElementSize(es) == es > MERGE_WIDTH \/ MERGE_WIDTH % es # 0

\* C4 as the specification states it: mergeVectorRows throws
\* InvalidElementSize when the element size of any of its vectors is above
\* MERGE_WIDTH or does not divide it.
C4_RejectsAnyBadVector ==
    (/\ last.op = "mergeVectorRows"
     /\ \E i \in 1..Len(last.arg.sizes) : BadElementSize(last.arg.sizes[i]))
        => last.err = "InvalidElementSize"

\* C5: a call that throws InvalidElementSize or MisalignedBuffer leaves the
\* memory, the allocator's blocks, the memory's size and identity and the
\* caller's vectors as they were.
C5_ValidationHasNoEffect ==
    [][last'.err \in {"InvalidElementSize", "MisalignedBuffer"} =>
           /\ mem' = mem
           /\ blocks' = blocks
           /\ bufId' = bufId
           /\ cap' = cap
           /\ results' = results]_vars

C5_Witness ==
    /\ last.op = "mergeVectorRows"
    /\ last.err = "InvalidElementSize"
    /\ blocks # {}
    /\ DOMAIN mem # {}

\* the pairs merged in every state: two short spans, a leaf with
\* NULL_BUFFER, NULL_BUFFER twice, an empty span with a byte, and two spans
\* longer than a digest
ScratchPairs ==
    MergeInputs \cup {<<NULL_BUFFER, NULL_BUFFER>>,
                      <<Bytes(0, 0), Bytes(1, 9)>>,
                      <<Bytes(DIGEST_SIZE + 8, 5), Bytes(DIGEST_SIZE + 1, 6)>>}

\* C6: in every state the engine reaches, merge(a, b) returns the bytes
\* digest(concat(a, b)) returns, and they are the hash of a followed by b
\* whatever the scratch region held.
C6_MergeIsDigestOfConcat ==
    \A ab \in ScratchPairs :
        /\ merge(Machine(0), ab[1], ab[2]).ret.bytes
               = digest(Machine(0), Concat(ab[1], ab[2])).ret.bytes
        /\ merge(Machine(0), ab[1], ab[2]).ret.bytes = MergeRef(ab[1], ab[2])

C6_Witness ==
    /\ last.op = "merge"
    /\ last.err = ""
    /\ last.arg = <<Bytes(1, 1), Bytes(2, 2)>>
    /\ Load(mem, iRef, 3) = Concat(Bytes(1, 1), Bytes(2, 2))
    /\ RdByte(mem, iRef + 3) # Raw(0)
    /\ last.out.bytes = MergeRef(Bytes(1, 1), Bytes(2, 2))

\* C7: the digest digest() or merge() returned shows the bytes it showed when
\* it was returned, whatever the engine did since.
C7_DigestIsACopy ==
    \A i \in 1..Len(held) : Contents(mem, bufId, held[i].buf) = held[i].shown

C7_Witness ==
    /\ Len(held) = 1
    /\ last.op \in {"buildMerkleNodes", "mergeVectorRows", "digestValues"}
    /\ last.err = ""
    /\ Load(mem, oRef, DIGEST_SIZE) # held[1].shown
    /\ Contents(mem, bufId, held[1].buf) = held[1].shown

\* the blocks of the vectors the engine returned and the caller holds
ResultBlocks == {[addr |-> v.base, size |-> v.length * v.elementSize] : v \in results}

\* C8 as the specification states it: when a call throws, every block it
\* allocated for itself has been released, so the blocks left are those of
\* the returned vectors.
C8_ReleasedOnEveryExit == last.err # "" => blocks \subseteq ResultBlocks

\* C9: after calls that all completed, the allocated blocks are exactly the
\* blocks of the returned vectors; the last call released no block twice
\* and copied no input that was already in WASM memory.
C9_OnlyResultsOutstanding ==
    allOk => /\ blocks = ResultBlocks
             /\ ~last.dbl
             /\ ~last.copied

C9_Witness ==
    /\ allOk
    /\ last.op = "mergeVectorRows"
    /\ last.arg.resident = {1}
    /\ Len(last.arg.sizes) = 2
    /\ results # {}
    /\ blocks = ResultBlocks

\* C10: no call reads or writes WASM memory through a view taken before an
\* allocation that replaced memory.buffer.
C10_NoStaleView == ~last.stale

C10_Witness ==
    /\ last.op = "digest"
    /\ last.err = ""
    /\ last.grew
    /\ last.arg.byteLength >= SCRATCH_LIMIT
    /\ last.out.bytes = DigestBytes(H(Large))
====
